---- MODULE Spec2Model ----
(***************************************************************************)
(* Model of the update-translations command (commands/update-translations  *)
(* and cli.ts): key flattening, missing-key detection, the parser of the   *)
(* translation response and the concurrent write-back of translated keys.  *)
(*                                                                         *)
(* Strings are sequences of tokens.  The tokens ":", ".", " ", "/" and the *)
(* newline are single characters; every other token is an atomic chunk of  *)
(* text that holds none of these characters ("common.json" stands for the  *)
(* file name without its dot, "undefined" for the nine letters).           *)
(*                                                                         *)
(* A JSON value is a record with one field:                                *)
(*   [leaf |-> s]  a string s          [null |-> TRUE]  null               *)
(*   [obj |-> f]   an object, f maps its keys to JSON values               *)
(*   [arr |-> f]   an array, f maps its own enumerable keys to values      *)
(***************************************************************************)
EXTENDS Integers, Sequences, FiniteSets, TLC

VARIABLES
    rootExists,  \* the <folder> argument names a directory
    dirs,        \* the entries of that directory
    fs,          \* the JSON files: <<locale, relativePath>> |-> document
    fs0,         \* the files when the command starts
    dryRun,      \* the --dry-run option
    pc,          \* where translateMissingKeys is
    allMissing,  \* locale |-> missing entries (line 119)
    loc,         \* locale |-> state of its pipeline
    resp,        \* locale |-> the completion it received
    translated,  \* locale |-> the parsed completion (line 135)
    task,        \* locale |-> fullKey |-> the write task of the entry
    run,         \* the promise translateMissingKeys returns
    proc,        \* the process
    calls,       \* the requests sent to the translation service
    rtDoc, rtFlat, rtOut, rtPc,   \* the round trip on one document
    mFile, mKey, mOut, mPc        \* one merge write on one document

vars == <<rootExists, dirs, fs, fs0, dryRun, pc, allMissing, loc, resp, translated,
          task, run, proc, calls, rtDoc, rtFlat, rtOut, rtPc, mFile, mKey, mOut, mPc>>

runVars == <<rootExists, dirs, fs, fs0, dryRun, pc, allMissing, loc, resp, translated,
             task, run, proc, calls>>

rtVars == <<rtDoc, rtFlat, rtOut, rtPc>>

mergeVars == <<mFile, mKey, mOut, mPc>>

-----------------------------------------------------------------------------
(* Bounds *)

\* nesting depth of the documents drawn for the flatten/unflatten round trip
MaxDepth == 2

\* number of lines the translation responses of one run hold together
MaxLines == 2

-----------------------------------------------------------------------------
(* Strings *)

Colon == ":"
Dot == "."
Space == " "
Slash == "/"
Newline == "\n"
DigitSeq == <<"0", "1", "2", "3", "4", "5", "6", "7", "8", "9">>
AllDigits == {DigitSeq[i] : i \in 1..Len(DigitSeq)}

EmptyMap == [k \in {} |-> k]

\* String.prototype.split with a one-character separator
RECURSIVE Split(_, _)
Split(s, sep) ==
    IF \E i \in 1..Len(s) : s[i] = sep
    THEN LET i == CHOOSE i \in 1..Len(s) :
                      s[i] = sep /\ \A j \in 1..(i-1) : s[j] # sep
         IN  <<SubSeq(s, 1, i-1)>> \o Split(SubSeq(s, i+1, Len(s)), sep)
    ELSE <<s>>

MatchAt(s, i, sep) ==
    /\ i + Len(sep) - 1 <= Len(s)
    /\ SubSeq(s, i, i + Len(sep) - 1) = sep

\* String.prototype.split with a separator of several characters
RECURSIVE SplitStr(_, _)
SplitStr(s, sep) ==
    IF \E i \in 1..Len(s) : MatchAt(s, i, sep)
    THEN LET i == CHOOSE i \in 1..Len(s) :
                      MatchAt(s, i, sep) /\ \A j \in 1..(i-1) : ~MatchAt(s, j, sep)
         IN  <<SubSeq(s, 1, i-1)>> \o SplitStr(SubSeq(s, i + Len(sep), Len(s)), sep)
    ELSE <<s>>

\* Array.prototype.join
RECURSIVE Join(_, _)
Join(parts, sep) ==
    IF Len(parts) = 0 THEN <<>>
    ELSE IF Len(parts) = 1 THEN parts[1]
    ELSE parts[1] \o sep \o Join(Tail(parts), sep)

\* String.prototype.trim
RECURSIVE Trim(_)
Trim(s) ==
    IF Len(s) = 0 THEN s
    ELSE IF s[1] \in {Space, Newline} THEN Trim(Tail(s))
    ELSE IF s[Len(s)] \in {Space, Newline} THEN Trim(SubSeq(s, 1, Len(s) - 1))
    ELSE s

\* a fixed enumeration of a finite set (the order Object.entries walks in)
RECURSIVE SetToSeq(_)
SetToSeq(S) ==
    IF S = {} THEN <<>>
    ELSE LET x == CHOOSE x \in S : TRUE IN <<x>> \o SetToSeq(S \ {x})

-----------------------------------------------------------------------------
(* JSON values *)

Null == [null |-> TRUE]
Leaf(s) == [leaf |-> s]
Obj(f) == [obj |-> f]
Arr(f) == [arr |-> f]

IsObj(v) == DOMAIN v = {"obj"}
IsArr(v) == DOMAIN v = {"arr"}

\* typeof val === 'object' && val !== null
IsObject(v) == IsObj(v) \/ IsArr(v)

\* the own enumerable properties of an object or of an array
Props(v) == IF IsObj(v) THEN v.obj ELSE v.arr

\* obj[key] = val on an object kept as a function
Assign(f, key, val) ==
    [k \in DOMAIN f \cup {key} |-> IF k = key THEN val ELSE f[k]]

\* lodash isIndex on a string, and the integer-like property keys that
\* Object.entries lists first: /^(?:0|[1-9]\d*)$/
IsIndex(key) ==
    /\ Len(key) >= 1
    /\ \A i \in 1..Len(key) : key[i] \in AllDigits
    /\ (Len(key) > 1 => key[1] # "0")

DigitVal(c) == CHOOSE n \in 0..9 : DigitSeq[n + 1] = c

RECURSIVE NumOf(_)
NumOf(key) ==
    IF Len(key) = 0 THEN 0
    ELSE 10 * NumOf(SubSeq(key, 1, Len(key) - 1)) + DigitVal(key[Len(key)])

\* the integer-like keys in ascending order
RECURSIVE Ascending(_)
Ascending(S) ==
    IF S = {} THEN <<>>
    ELSE LET lo == CHOOSE k \in S : \A j \in S : NumOf(k) <= NumOf(j)
         IN  <<lo>> \o Ascending(S \ {lo})

\* Object.keys of a parsed object: the integer-like keys in ascending order,
\* then the other keys (in a fixed order that stands for the order of the text)
OwnKeys(f) ==
    Ascending({k \in DOMAIN f : IsIndex(k)}) \o SetToSeq({k \in DOMAIN f : ~IsIndex(k)})

(* A FlatJson is kept with its property order: a sequence of <<key, value>>. *)

FlatKeys(flat) == [i \in 1..Len(flat) |-> flat[i][1]]

HasKey(flat, key) == \E i \in 1..Len(flat) : flat[i][1] = key

Get(flat, key) == flat[CHOOSE i \in 1..Len(flat) : flat[i][1] = key][2]

\* acc[key] = val: a known key keeps its place, a new integer-like key goes
\* to its place among the integer-like keys, any other new key goes last
Put(flat, key, val) ==
    IF HasKey(flat, key)
    THEN [i \in 1..Len(flat) |-> IF flat[i][1] = key THEN <<key, val>> ELSE flat[i]]
    ELSE IF IsIndex(key)
    THEN LET before == SelectSeq(flat, LAMBDA e : IsIndex(e[1]) /\ NumOf(e[1]) < NumOf(key))
             after == SelectSeq(flat, LAMBDA e : ~(IsIndex(e[1]) /\ NumOf(e[1]) < NumOf(key)))
         IN  before \o <<<<key, val>>>> \o after
    ELSE Append(flat, <<key, val>>)

\* { ...a, ...b }
RECURSIVE Spread(_, _)
Spread(a, b) ==
    IF b = <<>> THEN a ELSE Spread(Put(a, Head(b)[1], Head(b)[2]), Tail(b))

\* flattenObject: the reduce over Object.entries(obj)
RECURSIVE flattenEntries(_, _, _, _)
flattenObject(props, prefix) ==
    flattenEntries(props, prefix, OwnKeys(props), <<>>)

flattenEntries(props, prefix, keys, acc) ==
    IF keys = <<>> THEN acc
    ELSE LET key == Head(keys)
             val == props[key]
             newKey == IF prefix # <<>> THEN prefix \o <<Dot>> \o key ELSE key
             next == IF IsObject(val)
                     THEN Spread(acc, flattenObject(Props(val), newKey))
                     ELSE Put(acc, newKey, val)
         IN  flattenEntries(props, prefix, Tail(keys), next)

\* lodash stringToPath on a key without brackets
StringToPath(key) == Split(key, Dot)

\* lodash baseSet: walk the path, creating an array where the next key is an
\* index and an object otherwise
RECURSIVE BaseSet(_, _, _)
BaseSet(node, path, val) ==
    LET key == Head(path)
        f == Props(node)
        objValue == IF key \in DOMAIN f THEN f[key] ELSE Null
        child == IF IsObject(objValue) THEN objValue
                 ELSE IF IsIndex(path[2]) THEN Arr(EmptyMap) ELSE Obj(EmptyMap)
        newValue == IF Len(path) = 1 THEN val ELSE BaseSet(child, Tail(path), val)
    IN  IF IsObj(node) THEN Obj(Assign(f, key, newValue))
        ELSE Arr(Assign(f, key, newValue))

\* unflattenObject: the reduce over Object.entries(flat) calling set
RECURSIVE unflattenEntries(_, _)
unflattenEntries(entries, acc) ==
    IF entries = <<>> THEN acc
    ELSE unflattenEntries(Tail(entries),
                          BaseSet(acc, StringToPath(Head(entries)[1]), Head(entries)[2]))

unflattenObject(flat) == unflattenEntries(flat, Obj(EmptyMap))

-----------------------------------------------------------------------------
(* The round trip flatten / unflatten on drawn documents *)

DocKeys == {<<"a">>, <<"0">>}
DocLeaves == {Leaf(<<"x">>), Null}

RECURSIVE NodesUpTo(_)
ObjectsOver(children) ==
    UNION {{Obj(f) : f \in [ks -> children]} : ks \in SUBSET DocKeys}

NodesUpTo(d) ==
    IF d = 0 THEN DocLeaves ELSE DocLeaves \cup ObjectsOver(NodesUpTo(d - 1))

\* nested documents without arrays and without a dot in a key
Docs == ObjectsOver(NodesUpTo(MaxDepth - 1))

\* the command is not running
RunOff ==
    /\ rootExists = FALSE /\ dirs = {} /\ fs = EmptyMap /\ fs0 = EmptyMap
    /\ dryRun = TRUE /\ pc = "off" /\ allMissing = EmptyMap /\ loc = EmptyMap
    /\ resp = EmptyMap /\ translated = EmptyMap /\ task = EmptyMap
    /\ run = "off" /\ proc = "off" /\ calls = {}

RoundTripOff ==
    rtDoc = Obj(EmptyMap) /\ rtFlat = <<>> /\ rtOut = Obj(EmptyMap) /\ rtPc = "off"

MergeOff ==
    mFile = <<>> /\ mKey = <<>> /\ mOut = Obj(EmptyMap) /\ mPc = "off"

InitRT ==
    /\ RunOff
    /\ MergeOff
    /\ rtDoc \in Docs
    /\ rtFlat = <<>>
    /\ rtOut = Obj(EmptyMap)
    /\ rtPc = "start"

Flatten ==
    /\ rtPc = "start"
    /\ rtFlat' = flattenObject(Props(rtDoc), <<>>)
    /\ rtPc' = "flat"
    /\ UNCHANGED <<rtDoc, rtOut>>
    /\ UNCHANGED <<runVars, mergeVars>>

Unflatten ==
    /\ rtPc = "flat"
    /\ rtOut' = unflattenObject(rtFlat)
    /\ rtPc' = "done"
    /\ UNCHANGED <<rtDoc, rtFlat>>
    /\ UNCHANGED <<runVars, mergeVars>>

-----------------------------------------------------------------------------
(* The locale folder *)

Fr == <<"f", "r">>
En == <<"e", "n">>
De == <<"d", "e">>
TooLong == <<"x", "x", "-", "y", "y", "-", "z", "z">>

\* the entries a root folder can hold
Entries == {Fr, En, De, TooLong}

\* the <referenceLocale> argument of the command
referenceLocale == Fr

Letters == {"d", "e", "f", "n", "r", "x", "y", "z"}

IsLetters(seg, lo, hi) ==
    Len(seg) >= lo /\ Len(seg) <= hi /\ \A i \in 1..Len(seg) : seg[i] \in Letters

IsRegion(seg) ==
    \/ IsLetters(seg, 2, 2)
    \/ Len(seg) = 3 /\ \A i \in 1..3 : seg[i] \in AllDigits

\* /^[A-Za-z]{2,4}([_-][A-Za-z]{4})?([_-]([A-Za-z]{2}|[0-9]{3}))?$/
isLocale(name) ==
    LET segs == Split([i \in 1..Len(name) |-> IF name[i] = "_" THEN "-" ELSE name[i]], "-")
    IN  /\ Len(segs) <= 3
        /\ IsLetters(segs[1], 2, 4)
        /\ Len(segs) = 2 => (IsLetters(segs[2], 4, 4) \/ IsRegion(segs[2]))
        /\ Len(segs) = 3 => (IsLetters(segs[2], 4, 4) /\ IsRegion(segs[3]))

Common == <<"common.json">>
Sep == <<Colon, Colon, Colon>>
KA == <<"a">>
KB == <<"b">>
KC == <<"c">>

Map1(k, v) == [x \in {k} |-> v]
Map2(k1, v1, k2, v2) == [x \in {k1, k2} |-> IF x = k1 THEN v1 ELSE v2]

\* {"a": {"b": "Bonjour"}}
RefSmall == Obj(Map1(KA, Obj(Map1(KB, Leaf(<<"Bonjour">>)))))
\* {"a": {"b": "Bonjour"}, "c": "Salut"}
RefBig == Obj(Map2(KA, Obj(Map1(KB, Leaf(<<"Bonjour">>))), KC, Leaf(<<"Salut">>)))

\* path.join(folderPath, locale, relativePath): a leading "./" is dropped
RECURSIVE Normalize(_)
Normalize(rel) ==
    IF Len(rel) >= 2 /\ rel[1] = Dot /\ rel[2] = Slash
    THEN Normalize(SubSeq(rel, 3, Len(rel)))
    ELSE rel

PathJoin(locale, rel) == <<locale, Normalize(rel)>>

-----------------------------------------------------------------------------
(* JSON files *)

RECURSIVE StrOf(_)
StrOf(n) ==
    LET d == DigitSeq[(n % 10) + 1]
    IN  IF n < 10 THEN <<d>> ELSE StrOf(n \div 10) \o <<d>>

\* JSON.stringify followed by JSON.parse: an array keeps its indices only,
\* and its holes become null
RECURSIVE ToJson(_)
ToJson(v) ==
    IF IsObj(v) THEN Obj([k \in DOMAIN v.obj |-> ToJson(v.obj[k])])
    ELSE IF IsArr(v)
    THEN LET idx == {k \in DOMAIN v.arr : IsIndex(k)}
             len == IF idx = {} THEN 0
                    ELSE 1 + NumOf(CHOOSE k \in idx : \A j \in idx : NumOf(j) <= NumOf(k))
         IN  Arr([k \in {StrOf(n) : n \in 0..(len - 1)} |->
                     IF k \in idx THEN ToJson(v.arr[k]) ELSE Null])
    ELSE v

-----------------------------------------------------------------------------
(* getMissingTranslationsForLocale / getAllMissingTranslations *)

\* fg.glob(`${referenceFolder}/**/*.json`), relative to the folder; a folder
\* that does not exist has no file
Glob(files, folder) == SetToSeq({p[2] : p \in {q \in DOMAIN files : q[1] = folder}})

\* a difference that keeps every key of the reference
differenceKeepAll(array, values) == array

\* lodash difference(array, values)
difference(array, values) ==
    SelectSeq(array, LAMBDA k : \A i \in 1..Len(values) : values[i] # k)

\* exists ? await fs.readJson(targetFilePath) : {}
ReadOrEmpty(files, path) ==
    IF path \in DOMAIN files THEN files[path] ELSE Obj(EmptyMap)

\* the entries of one reference file (the body of files.map)
FileEntries(files, referenceFolder, localeFolder, relativePath) ==
    LET refFlat == flattenObject(Props(files[<<referenceFolder, relativePath>>]), <<>>)
        targetFlat == flattenObject(
            Props(ReadOrEmpty(files, PathJoin(localeFolder, relativePath))), <<>>)
        missingKeys == difference(FlatKeys(refFlat), FlatKeys(targetFlat))
    IN  [i \in 1..Len(missingKeys) |->
            <<relativePath \o Sep \o missingKeys[i], Get(refFlat, missingKeys[i])>>]

\* Object.fromEntries: a later entry overrides an earlier one
RECURSIVE FromEntries(_, _)
FromEntries(entries, acc) ==
    IF entries = <<>> THEN acc
    ELSE FromEntries(Tail(entries), Assign(acc, Head(entries)[1], Head(entries)[2]))

\* entryGroups.flat()
RECURSIVE Flat(_)
Flat(groups) == IF groups = <<>> THEN <<>> ELSE Head(groups) \o Flat(Tail(groups))

getMissingTranslationsForLocale(files, referenceFolder, localeFolder) ==
    LET globbed == Glob(files, referenceFolder)
        entryGroups == [i \in 1..Len(globbed) |->
                           FileEntries(files, referenceFolder, localeFolder, globbed[i])]
    IN  FromEntries(Flat(entryGroups), EmptyMap)

getAllMissingTranslations(files, entries) ==
    LET locales == {e \in entries : isLocale(e)}
    IN  [locale \in locales \ {referenceLocale} |->
            getMissingTranslationsForLocale(files, referenceLocale, locale)]

-----------------------------------------------------------------------------
(* translateWithGPT *)

\* `${value}` of a flattened leaf
ToText(v) == IF DOMAIN v = {"leaf"} THEN v.leaf ELSE <<"null">>

\* Object.entries(sourceTexts).map(([key, value]) => `${key}: ${value}`).join('\n')
Formatted(sourceTexts) ==
    LET keys == SetToSeq(DOMAIN sourceTexts)
    IN  Join([i \in 1..Len(keys) |-> keys[i] \o <<Colon, Space>> \o ToText(sourceTexts[keys[i]])],
             <<Newline>>)

\* the body of response.split('\n').forEach: the line is cut at its colons,
\* the first piece is the key and the others, joined again, the value
ParseLine(result, line) ==
    LET pieces == Split(line, Colon)
        key == Head(pieces)
        valParts == Tail(pieces)
    IN  IF key # <<>> /\ Len(valParts) > 0
        THEN Assign(result, Trim(key), Trim(Join(valParts, <<Colon>>)))
        ELSE result

RECURSIVE ParseLines(_, _)
ParseLines(lines, result) ==
    IF lines = <<>> THEN result
    ELSE ParseLines(Tail(lines), ParseLine(result, Head(lines)))

\* translateWithGPT after the completion has arrived
ParseResponse(response) == ParseLines(Split(response, Newline), EmptyMap)

-----------------------------------------------------------------------------
(* translateMissingKeys *)

\* const [relativePath, jsonKey] = fullKey.split(':::')
RelativePath(fullKey) == SplitStr(fullKey, Sep)[1]

\* a jsonKey left undefined by the destructuring names the property "undefined"
JsonKey(fullKey) ==
    LET parts == SplitStr(fullKey, Sep)
    IN  IF Len(parts) >= 2 THEN parts[2] ELSE <<"undefined">>

\* flat[jsonKey] = translatedValue; unflattenObject(flat)
Updated(json, jsonKey, translatedValue) ==
    unflattenObject(Put(flattenObject(Props(json), <<>>), jsonKey, Leaf(translatedValue)))

\* a pipeline that does not look at the dry-run flag
StartPipelineNoDryRun(entries, dry) ==
    IF Cardinality(DOMAIN entries) = 0 THEN "uptodate" ELSE "translating"

\* what a locale's pipeline does before its first await
StartPipeline(entries, dry) ==
    IF Cardinality(DOMAIN entries) = 0 THEN "uptodate"
    ELSE IF dry THEN "preview"
    ELSE "translating"

Settled == {"uptodate", "preview", "updated", "failed"}

\* Promise.all over the locales' pipelines: rejected with the first rejection,
\* fulfilled when every pipeline is fulfilled
PromiseAll(current, pipelines) ==
    IF current # "pending" THEN current
    ELSE IF \E l \in DOMAIN pipelines : pipelines[l] = "failed" THEN "rejected"
    ELSE IF \A l \in DOMAIN pipelines : pipelines[l] \in Settled THEN "fulfilled"
    ELSE "pending"

\* the per-entry task, up to its first await
NewTask(locale, fullKey, translatedValue) ==
    [pc |-> "exists",
     targetPath |-> PathJoin(locale, RelativePath(fullKey)),
     jsonKey |-> JsonKey(fullKey),
     value |-> translatedValue,
     updated |-> Obj(EmptyMap)]

\* the status of a locale once the given tasks are its tasks
AfterTasks(tasks) ==
    IF \A k \in DOMAIN tasks : tasks[k].pc = "done" THEN "updated" ELSE "writing"

\* {"c": "Bye"}
EnPartial == Obj(Map1(KC, Leaf(<<"Bye">>)))

\* translateMissingKeys has been called
RunStart ==
    /\ fs0 = fs
    /\ pc = "start"
    /\ allMissing = EmptyMap
    /\ loc = EmptyMap
    /\ resp = EmptyMap
    /\ translated = EmptyMap
    /\ task = EmptyMap
    /\ run = "pending"
    /\ proc = "running"
    /\ calls = {}

Init ==
    /\ dryRun \in BOOLEAN
    /\ rootExists \in BOOLEAN
    /\ dirs \in IF rootExists THEN {Entries, Entries \ {referenceLocale}} ELSE {{}}
    /\ \E ref \in {RefSmall, RefBig} :
       \E en \in SUBSET {<<En, Common>>} :
       \E de \in SUBSET {<<De, Common>>} :
          fs = [p \in {q \in {<<Fr, Common>>, <<TooLong, Common>>} \cup en \cup de :
                          q[1] \in dirs} |->
                   IF p[1] = Fr THEN ref
                   ELSE IF p[1] = TooLong THEN RefSmall
                   ELSE IF p[1] = En THEN EnPartial ELSE RefBig]
    /\ RunStart
    /\ RoundTripOff
    /\ MergeOff

\* line 119: await getAllMissingTranslations(folderPath, referenceLocale)
GetAllMissing ==
    /\ proc = "running"
    /\ pc = "start"
    /\ IF rootExists
       THEN /\ allMissing' = getAllMissingTranslations(fs, dirs)
            /\ pc' = "missing"
            /\ run' = run
       ELSE \* line 60: fs.readdir rejects, and translateMissingKeys with it
            /\ allMissing' = allMissing
            /\ pc' = "aborted"
            /\ run' = "rejected"
    /\ UNCHANGED <<rootExists, dirs, fs, fs0, dryRun, loc, resp, translated, task, proc, calls>>
    /\ UNCHANGED <<rtVars, mergeVars>>

\* lines 121-135: every locale's pipeline runs to its first await
Launch ==
    /\ proc = "running"
    /\ pc = "missing"
    /\ pc' = "launched"
    /\ loc' = [l \in DOMAIN allMissing |-> StartPipeline(allMissing[l], dryRun)]
    /\ calls' = {<<l, Formatted(allMissing[l])>> : l \in {m \in DOMAIN allMissing : loc'[m] = "translating"}}
    /\ task' = [l \in DOMAIN allMissing |-> EmptyMap]
    /\ run' = PromiseAll(run, loc')
    /\ UNCHANGED <<rootExists, dirs, fs, fs0, dryRun, allMissing, resp, translated, proc>>
    /\ UNCHANGED <<rtVars, mergeVars>>

\* the lines a completion is drawn from: the requested keys translated, and
\* lines that carry no composite key
Translations == {<<"Hello">>, <<"Hi", Colon, Space, "you">>}

LinesFor(entries) ==
    {k \o <<Colon, Space>> \o v : k \in DOMAIN entries, v \in Translations}
    \cup {Common \o <<Colon, Space, "Hi">>,
          <<Dot, Slash>> \o Common \o <<Colon, Space, "Ho">>,
          <<"garbage">>}

LineCount(response) ==
    IF response = <<>> THEN 0 ELSE Len(Split(response, Newline))

\* the number of lines received so far, over all the locales
RECURSIVE Received(_, _)
Received(responses, ls) ==
    IF ls = {} THEN 0
    ELSE LET l == CHOOSE l \in ls : TRUE
         IN  LineCount(responses[l]) + Received(responses, ls \ {l})

\* the completions of at most n lines
ResponsesFor(entries, n) ==
    {Join(ls, <<Newline>>) : ls \in UNION {[1..m -> LinesFor(entries)] : m \in 0..n}}

\* lines 101-111 and 137-140: the completion arrives, is parsed, and a task
\* is started for every parsed entry
TranslateReturn(l, response) ==
    /\ proc = "running"
    /\ pc = "launched"
    /\ loc[l] = "translating"
    /\ resp' = Assign(resp, l, response)
    /\ translated' = Assign(translated, l, ParseResponse(response))
    /\ task' = [task EXCEPT ![l] = [k \in DOMAIN translated'[l] |-> NewTask(l, k, translated'[l][k])]]
    /\ loc' = [loc EXCEPT ![l] = AfterTasks(task'[l])]
    /\ run' = PromiseAll(run, loc')
    /\ UNCHANGED <<rootExists, dirs, fs, fs0, dryRun, pc, allMissing, proc, calls>>
    /\ UNCHANGED <<rtVars, mergeVars>>

\* line 96: the call to the translation service fails
TranslateFail(l) ==
    /\ proc = "running"
    /\ pc = "launched"
    /\ loc[l] = "translating"
    /\ loc' = [loc EXCEPT ![l] = "failed"]
    /\ run' = PromiseAll(run, loc')
    /\ UNCHANGED <<rootExists, dirs, fs, fs0, dryRun, pc, allMissing, resp, translated, task, proc, calls>>
    /\ UNCHANGED <<rtVars, mergeVars>>

\* line 140-144: fs.pathExists answers; without a file the task goes on to
\* line 145 with the empty document
PathExists(l, k) ==
    /\ proc = "running"
    /\ k \in DOMAIN task[l]
    /\ task[l][k].pc = "exists"
    /\ LET t == task[l][k]
       IN  task' = [task EXCEPT ![l][k] =
                      IF t.targetPath \in DOMAIN fs
                      THEN [t EXCEPT !.pc = "read"]
                      ELSE [t EXCEPT !.pc = "ensure",
                                     !.updated = Updated(Obj(EmptyMap), t.jsonKey, t.value)]]
    /\ UNCHANGED <<rootExists, dirs, fs, fs0, dryRun, pc, allMissing, loc, resp, translated, run, proc, calls>>
    /\ UNCHANGED <<rtVars, mergeVars>>

\* lines 141-144: fs.readJson answers
ReadJson(l, k) ==
    /\ proc = "running"
    /\ k \in DOMAIN task[l]
    /\ task[l][k].pc = "read"
    /\ LET t == task[l][k]
       IN  task' = [task EXCEPT ![l][k] =
                      [t EXCEPT !.pc = "ensure",
                                !.updated = Updated(fs[t.targetPath], t.jsonKey, t.value)]]
    /\ UNCHANGED <<rootExists, dirs, fs, fs0, dryRun, pc, allMissing, loc, resp, translated, run, proc, calls>>
    /\ UNCHANGED <<rtVars, mergeVars>>

\* line 145: fs.ensureDir answers
EnsureDir(l, k) ==
    /\ proc = "running"
    /\ k \in DOMAIN task[l]
    /\ task[l][k].pc = "ensure"
    /\ task' = [task EXCEPT ![l][k].pc = "write"]
    /\ UNCHANGED <<rootExists, dirs, fs, fs0, dryRun, pc, allMissing, loc, resp, translated, run, proc, calls>>
    /\ UNCHANGED <<rtVars, mergeVars>>

\* lines 146-149: fs.writeJson answers; the last task of the locale ends the
\* locale's pipeline
WriteJson(l, k) ==
    /\ proc = "running"
    /\ k \in DOMAIN task[l]
    /\ task[l][k].pc = "write"
    /\ fs' = Assign(fs, task[l][k].targetPath, ToJson(task[l][k].updated))
    /\ task' = [task EXCEPT ![l][k].pc = "done"]
    /\ loc' = [loc EXCEPT ![l] = AfterTasks(task'[l])]
    /\ run' = PromiseAll(run, loc')
    /\ UNCHANGED <<rootExists, dirs, fs0, dryRun, pc, allMissing, resp, translated, proc, calls>>
    /\ UNCHANGED <<rtVars, mergeVars>>

\* cli.ts 17-21: nothing handles the rejection of the action's promise; the
\* runtime may end the process there
UnhandledRejection ==
    /\ proc = "running"
    /\ run = "rejected"
    /\ proc' = "exited"
    /\ UNCHANGED <<rootExists, dirs, fs, fs0, dryRun, pc, allMissing, loc, resp, translated, task, run, calls>>
    /\ UNCHANGED <<rtVars, mergeVars>>

Next ==
    \/ GetAllMissing
    \/ Launch
    \/ \E l \in DOMAIN loc :
          \E r \in ResponsesFor(allMissing[l], MaxLines - Received(resp, DOMAIN resp)) :
             TranslateReturn(l, r)
    \/ \E l \in DOMAIN loc : TranslateFail(l)
    \/ \E l \in DOMAIN task : \E k \in DOMAIN task[l] : PathExists(l, k)
    \/ \E l \in DOMAIN task : \E k \in DOMAIN task[l] : ReadJson(l, k)
    \/ \E l \in DOMAIN task : \E k \in DOMAIN task[l] : EnsureDir(l, k)
    \/ \E l \in DOMAIN task : \E k \in DOMAIN task[l] : WriteJson(l, k)
    \/ UnhandledRejection

Spec == Init /\ [][Next]_vars

NextRT == Flatten \/ Unflatten

SpecRT == InitRT /\ [][NextRT]_vars

-----------------------------------------------------------------------------
(* Missing-key detection on drawn target documents *)

K0 == <<"0">>

\* reference documents over the keys of Docs, one level deeper than them
DetectRefs ==
    {Obj(Map2(KA, Obj(Map2(K0, Leaf(<<"un">>), KA, Leaf(<<"deux">>))), K0, Leaf(<<"trois">>))),
     Obj(Map1(KA, Obj(Map1(KA, Obj(Map1(K0, Leaf(<<"un">>))))))),
     Obj(Map2(KA, Leaf(<<"un">>), K0, Obj(Map1(KA, Null))))}

InitDetect ==
    /\ dryRun = TRUE
    /\ rootExists = TRUE
    /\ dirs = Entries
    /\ \E ref \in DetectRefs :
       \E en \in SUBSET {<<En, Common>>} :
       \E d \in Docs :
          /\ en = {} => d = Obj(EmptyMap)
          /\ fs = [p \in {<<Fr, Common>>} \cup en |-> IF p[1] = Fr THEN ref ELSE d]
    /\ RunStart
    /\ RoundTripOff
    /\ MergeOff

NextDetect == GetAllMissing

SpecDetect == InitDetect /\ [][NextDetect]_vars

-----------------------------------------------------------------------------
(* One merge write on a drawn document, without interference *)

MergeValue == <<"v">>

\* the json paths of at most two keys, and the key a missing ":::" leaves
MergeKeys ==
    {k : k \in DocKeys} \cup {k1 \o <<Dot>> \o k2 : k1 \in DocKeys, k2 \in DocKeys}
    \cup {<<"undefined">>}

InitMerge ==
    /\ RunOff
    /\ RoundTripOff
    /\ mFile \in {<<>>} \cup {<<d>> : d \in Docs}
    /\ mKey \in MergeKeys
    /\ mOut = Obj(EmptyMap)
    /\ mPc = "start"

\* lines 140-146 of one task: the file is read if it exists, the leaf is set
\* and the document is written
Merge ==
    /\ mPc = "start"
    /\ mOut' = ToJson(Updated(IF mFile = <<>> THEN Obj(EmptyMap) ELSE mFile[1],
                              mKey, MergeValue))
    /\ mPc' = "done"
    /\ UNCHANGED <<mFile, mKey>>
    /\ UNCHANGED <<runVars, rtVars>>

NextMerge == Merge

SpecMerge == InitMerge /\ [][NextMerge]_vars

-----------------------------------------------------------------------------
(* Properties *)

\* the key paths that lead to the scalar leaves of a JSON value
RECURSIVE LeafPaths(_)
LeafPaths(v) ==
    IF IsObject(v)
    THEN UNION {{<<k>> \o p : p \in LeafPaths(Props(v)[k])} : k \in DOMAIN Props(v)}
    ELSE {<<>>}

\* the value a key path leads to
RECURSIVE ValueAt(_, _)
ValueAt(v, path) ==
    IF path = <<>> THEN v ELSE ValueAt(Props(v)[Head(path)], Tail(path))

\* v is an object that holds the scalar leaf at the key path
RECURSIVE HoldsAt(_, _, _)
HoldsAt(v, path, leaf) ==
    IF path = <<>> THEN v = leaf
    ELSE /\ IsObject(v)
         /\ Head(path) \in DOMAIN Props(v)
         /\ HoldsAt(Props(v)[Head(path)], Tail(path), leaf)

Targets == {e \in dirs : isLocale(e)} \ {referenceLocale}

RefFiles == {p[2] : p \in {q \in DOMAIN fs : q[1] = referenceLocale}}

\* R \ T of one reference file and one locale, as key paths
MissingPaths(rel, l) ==
    LET R == {Join(p, <<Dot>>) : p \in LeafPaths(fs[<<referenceLocale, rel>>])}
        T == IF <<l, rel>> \in DOMAIN fs
             THEN {Join(p, <<Dot>>) : p \in LeafPaths(fs[<<l, rel>>])}
             ELSE {}
    IN  {p \in LeafPaths(fs[<<referenceLocale, rel>>]) : Join(p, <<Dot>>) \in R \ T}

\* C5: once the detection has run, the missing set of every locale holds
\* exactly one entry relativePath:::k for every key k of a reference file that
\* the same file of the locale lacks (an absent file lacks them all), and the
\* entry carries the reference text of k
C5_ExactDifference ==
    pc = "missing" =>
        \A l \in Targets :
            /\ l \in DOMAIN allMissing
            /\ DOMAIN allMissing[l] =
                  {rel \o Sep \o Join(p, <<Dot>>) : <<rel, p>> \in
                      UNION {{<<r, q>> : q \in MissingPaths(r, l)} : r \in RefFiles}}
            /\ \A rel \in RefFiles : \A p \in MissingPaths(rel, l) :
                  allMissing[l][rel \o Sep \o Join(p, <<Dot>>)]
                      = ValueAt(fs[<<referenceLocale, rel>>], p)

\* a target file exists, holds some reference keys and lacks others
C5_Witness ==
    /\ pc = "missing"
    /\ <<En, Common>> \in DOMAIN fs
    /\ fs[<<En, Common>>] # Obj(EmptyMap)
    /\ allMissing[En] # EmptyMap
    /\ Cardinality(DOMAIN allMissing[En]) <
          Cardinality(LeafPaths(fs[<<referenceLocale, Common>>]))

\* C2: in a dry run no file is created, modified or deleted and the
\* translation service is never called
C2_DryRunNoEffect ==
    dryRun =>
        /\ fs = fs0
        /\ calls = {}
        /\ resp = EmptyMap
        /\ \A l \in DOMAIN task : task[l] = EmptyMap

\* a dry run that has ended and has previewed the missing keys of a locale
C2_Witness ==
    /\ dryRun
    /\ run = "fulfilled"
    /\ \E l \in DOMAIN loc : loc[l] = "preview" /\ allMissing[l] # EmptyMap

\* the lines of the response of a locale
ResponseLines(l) == IF l \in DOMAIN resp THEN Split(resp[l], Newline) ELSE <<>>

HasLine(l, line) == \E i \in 1..Len(ResponseLines(l)) : ResponseLines(l)[i] = line

\* the requested keys of a locale that the response translates, with the
\* translation, when the response holds one line for the key
Answered(l) ==
    {kv \in (DOMAIN allMissing[l]) \X Translations :
        /\ HasLine(l, kv[1] \o <<Colon, Space>> \o kv[2])
        /\ \A v \in Translations \ {kv[2]} : ~HasLine(l, kv[1] \o <<Colon, Space>> \o v)}

\* the translation is in the file of the locale, at the leaf the key names
Written(l, key, v) ==
    LET parts == SplitStr(key, Sep)
    IN  /\ <<l, parts[1]>> \in DOMAIN fs
        /\ HoldsAt(fs[<<l, parts[1]>>], Split(parts[2], Dot), Leaf(v))

\* C1: when the pipeline of a locale has ended, every requested key K that
\* the response answers with a line "K: V" has been parsed into the entry
\* K -> V, and the file rootDir/locale/relativePath holds V at the leaf jsonPath
C1_TranslationWritten ==
    \A l \in DOMAIN loc :
        loc[l] = "updated" =>
            \A kv \in Answered(l) :
                /\ kv[1] \in DOMAIN translated[l]
                /\ translated[l][kv[1]] = kv[2]
                /\ Written(l, kv[1], kv[2])

\* C3: the run is settled only when every locale's pipeline is settled
C3_RunSettlesLast ==
    run # "pending" => \A l \in DOMAIN loc : loc[l] \in Settled

\* C4: when the writes of a locale have ended, two answered keys of the same
\* file are both in the file
C4_NoLostWrite ==
    \A l \in DOMAIN loc :
        loc[l] = "updated" =>
            \A kv1 \in Answered(l) : \A kv2 \in Answered(l) :
                (kv1[1] # kv2[1] /\ SplitStr(kv1[1], Sep)[1] = SplitStr(kv2[1], Sep)[1])
                    => (Written(l, kv1[1], kv1[2]) /\ Written(l, kv2[1], kv2[2]))

\* C6: the document rebuilt from the flattened document is the document
C6_RoundTrip ==
    rtPc = "done" => rtOut = rtDoc

\* C7: a step of the task of a key that holds no ":::" leaves the files as
\* they are
C7_MalformedSkipped ==
    [][\A l \in DOMAIN task : \A k \in DOMAIN task[l] :
          (Len(SplitStr(k, Sep)) < 2 /\ l \in DOMAIN task' /\ k \in DOMAIN task'[l]
             /\ task'[l][k] # task[l][k])
          => fs' = fs]_vars

\* C8: without the root directory, or without the directory of the reference
\* locale, the run ends in an error, no locale is reported up to date or
\* updated, no call is made and no file is written
C8_NotFoundAborts ==
    (~rootExists \/ referenceLocale \notin dirs) =>
        /\ run # "fulfilled"
        /\ \A l \in DOMAIN loc : loc[l] \notin {"uptodate", "updated"}
        /\ calls = {}
        /\ fs = fs0

IsPrefix(p, q) == Len(p) <= Len(q) /\ SubSeq(q, 1, Len(p)) = p

\* C9: the written document holds the value at jsonPath and every other leaf
\* of the existing document at its path (stated for the leaves that jsonPath
\* neither leads through nor sits above, which the claim covers); without an
\* existing file the written document holds that one leaf only
C9_MergeKeepsLeaves ==
    mPc = "done" =>
        LET old == IF mFile = <<>> THEN Obj(EmptyMap) ELSE mFile[1]
            path == Split(mKey, Dot)
        IN  /\ HoldsAt(mOut, path, Leaf(MergeValue))
            /\ \A p \in LeafPaths(old) :
                  (~IsPrefix(p, path) /\ ~IsPrefix(path, p))
                      => HoldsAt(mOut, p, ValueAt(old, p))
            /\ mFile = <<>> => LeafPaths(mOut) = {path}

\* C10: every write task addresses a file of its locale and a leaf of the
\* missing set of the locale; the leaves the files held when the run started
\* are kept, and so are the files of the reference locale
C10_WritesOnlyMissing ==
    /\ \A l \in DOMAIN task : \A k \in DOMAIN task[l] :
          /\ task[l][k].targetPath[1] = l
          /\ (RelativePath(k) \o Sep \o task[l][k].jsonKey) \in DOMAIN allMissing[l]
    /\ \A p \in DOMAIN fs0 :
          /\ p \in DOMAIN fs
          /\ \A q \in LeafPaths(fs0[p]) : HoldsAt(fs[p], q, ValueAt(fs0[p], q))
          /\ p[1] = referenceLocale => fs[p] = fs0[p]

====
